---- MODULE Spec2Model ----
(***************************************************************************)
(* IP access control of nakasyou/hono: the ipLimit middleware              *)
(* (src/middleware/ip-limit/index.ts) with its per-rule matcher            *)
(* isMatchForRule, and the ipRestriction middleware with its compiled      *)
(* matcher buildMatcher (second half of src/helper/ssg/index.ts).          *)
(*                                                                         *)
(* Text is modelled as a sequence of one-character strings, so that        *)
(* split, includes, the CIDR regular expression and parseInt are computed  *)
(* on the characters.  A BigInt is modelled as the set of the positions of *)
(* its 1 bits (position 0 is the least significant bit), which is exact    *)
(* for the non-negative values the code computes: & is intersection, === is *)
(* set equality, a shift moves the positions.                              *)
(***************************************************************************)
EXTENDS Integers, Sequences, FiniteSets, TLC

(***************************************************************************)
(* Text literals used as rules and request addresses.                      *)
(***************************************************************************)
\* "*"
STAR ==
    << "*" >>
\* "0.0.0.0"
A_0_0_0_0 ==
    << "0", ".", "0", ".", "0", ".", "0" >>
\* "192.168.1.0"
A_192_168_1_0 ==
    << "1", "9", "2", ".", "1", "6", "8", ".", "1", ".", "0" >>
\* "192.168.2.0"
A_192_168_2_0 ==
    << "1", "9", "2", ".", "1", "6", "8", ".", "2", ".", "0" >>
\* "192.168.2.5"
A_192_168_2_5 ==
    << "1", "9", "2", ".", "1", "6", "8", ".", "2", ".", "5" >>
\* "192.168.2.10"
A_192_168_2_10 ==
    << "1", "9", "2", ".", "1", "6", "8", ".", "2", ".", "1", "0" >>
\* "192.168.2.255"
A_192_168_2_255 ==
    << "1", "9", "2", ".", "1", "6", "8", ".", "2", ".", "2", "5", "5" >>
\* "192.168.3.1"
A_192_168_3_1 ==
    << "1", "9", "2", ".", "1", "6", "8", ".", "3", ".", "1" >>
\* "192.168.3.15"
A_192_168_3_15 ==
    << "1", "9", "2", ".", "1", "6", "8", ".", "3", ".", "1", "5" >>
\* "192.168.3.20"
A_192_168_3_20 ==
    << "1", "9", "2", ".", "1", "6", "8", ".", "3", ".", "2", "0" >>
\* "::1"
A6_1 ==
    << ":", ":", "1" >>
\* "0:0:0:0:0:0:0:1"
A6_1_full ==
    << "0", ":", "0", ":", "0", ":", "0", ":", "0", ":", "0", ":", "0", ":", "1" >>
\* "::0"
A6_0 ==
    << ":", ":", "0" >>
\* "::"
A6_any ==
    << ":", ":" >>
\* "8000::"
A6_8000 ==
    << "8", "0", "0", "0", ":", ":" >>
\* "1234::5678"
A6_1234_5678 ==
    << "1", "2", "3", "4", ":", ":", "5", "6", "7", "8" >>
\* "12AB::5678"
A6_1234_5678_upper ==
    << "1", "2", "A", "B", ":", ":", "5", "6", "7", "8" >>
\* "12ab::5678"
A6_12ab_5678 ==
    << "1", "2", "a", "b", ":", ":", "5", "6", "7", "8" >>
\* "192.168.2.*"
R_192_168_2_wild ==
    << "1", "9", "2", ".", "1", "6", "8", ".", "2", ".", "*" >>
\* "192.168.2.0/24"
R_192_168_2_0_p24 ==
    << "1", "9", "2", ".", "1", "6", "8", ".", "2", ".", "0", "/", "2", "4" >>
\* "0.0.0.0/0"
R_0_0_0_0_p0 ==
    << "0", ".", "0", ".", "0", ".", "0", "/", "0" >>
\* "192.168.2.10/32"
R_192_168_2_10_p32 ==
    << "1", "9", "2", ".", "1", "6", "8", ".", "2", ".", "1", "0", "/", "3", "2" >>
\* "192.168.2.10/33"
R_192_168_2_10_p33 ==
    << "1", "9", "2", ".", "1", "6", "8", ".", "2", ".", "1", "0", "/", "3", "3" >>
\* "192.168.2.0/"
R_192_168_2_0_pnone ==
    << "1", "9", "2", ".", "1", "6", "8", ".", "2", ".", "0", "/" >>
\* "::0/1"
R6_0_p1 ==
    << ":", ":", "0", "/", "1" >>
\* "::1/128"
R6_1_p128 ==
    << ":", ":", "1", "/", "1", "2", "8" >>
\* "::1/129"
R6_1_p129 ==
    << ":", ":", "1", "/", "1", "2", "9" >>
\* "::/0"
R6_any_p0 ==
    << ":", ":", "/", "0" >>
\* "1234::/16"
R6_1234_p16 ==
    << "1", "2", "3", "4", ":", ":", "/", "1", "6" >>
\* "bogus"
R_bogus ==
    << "b", "o", "g", "u", "s" >>

(***************************************************************************)
(* JavaScript values and string primitives.                                *)
(***************************************************************************)
\* the value undefined (an index past the end of an array); no text equals it
undefined ==
    << "undefined" >>

\* parseInt's NaN; the digit strings parsed here never give a negative number
NaN ==
    0 - 1

Digits ==
    {"0", "1", "2", "3", "4", "5", "6", "7", "8", "9"}

HexDigits ==
    Digits \cup {"a", "b", "c", "d", "e", "f", "A", "B", "C", "D", "E", "F"}

DigitVal(c) ==
    CASE c = "0" -> 0 [] c = "1" -> 1 [] c = "2" -> 2 [] c = "3" -> 3
      [] c = "4" -> 4 [] c = "5" -> 5 [] c = "6" -> 6 [] c = "7" -> 7
      [] c = "8" -> 8 [] c = "9" -> 9

HexVal(c) ==
    CASE c \in Digits -> DigitVal(c)
      [] c \in {"a", "A"} -> 10 [] c \in {"b", "B"} -> 11
      [] c \in {"c", "C"} -> 12 [] c \in {"d", "D"} -> 13
      [] c \in {"e", "E"} -> 14 [] c \in {"f", "F"} -> 15

\* String.prototype.toLowerCase on one hexadecimal character
LowerChar(c) ==
    CASE c = "A" -> "a" [] c = "B" -> "b" [] c = "C" -> "c"
      [] c = "D" -> "d" [] c = "E" -> "e" [] c = "F" -> "f"
      [] OTHER -> c

\* String.prototype.includes for a one-character needle
Includes(s, c) ==
    \E i \in DOMAIN s : s[i] = c

\* String.prototype.split for a one-character separator
RECURSIVE Split(_, _)
Split(s, sep) ==
    IF ~Includes(s, sep)
    THEN << s >>
    ELSE LET i == CHOOSE k \in DOMAIN s :
                      s[k] = sep /\ \A j \in 1..(k - 1) : s[j] # sep
         IN  << SubSeq(s, 1, i - 1) >> \o Split(SubSeq(s, i + 1, Len(s)), sep)

\* Array.prototype.join for a one-character separator
RECURSIVE Join(_, _)
Join(parts, sep) ==
    IF Len(parts) = 0 THEN << >>
    ELSE IF Len(parts) = 1 THEN parts[1]
    ELSE parts[1] \o << sep >> \o Join(Tail(parts), sep)

\* array[i], with JavaScript's 0-based index
At(arr, i) ==
    IF (i + 1) \in DOMAIN arr THEN arr[i + 1] ELSE undefined

\* the value of a string of base-`base` digits
RECURSIVE DigitsVal(_, _)
DigitsVal(s, base) ==
    IF Len(s) = 0 THEN 0
    ELSE DigitsVal(SubSeq(s, 1, Len(s) - 1), base) * base + HexVal(s[Len(s)])

\* const v = value: the value is computed once and handed to Body
Bind(value, Body(_)) ==
    CHOOSE out \in {Body(v) : v \in {value}} : TRUE

\* parseInt(s): the longest prefix of decimal digits, NaN when there is none
parseInt(s) ==
    LET n == IF s = undefined THEN 0
             ELSE CHOOSE k \in 0..Len(s) :
                      /\ \A j \in 1..k : s[j] \in Digits
                      /\ (k < Len(s) => s[k + 1] \notin Digits)
    IN  IF n = 0 THEN NaN ELSE DigitsVal(SubSeq(s, 1, n), 10)

\* IS_CIDR_NOTATION_REGEX = /\/[0-9]{0,3}$/ : a slash and at most three
\* digits at the end of the rule
IS_CIDR_NOTATION_REGEX(rule) ==
    \E k \in 0..3 :
        /\ Len(rule) >= k + 1
        /\ rule[Len(rule) - k] = "/"
        /\ \A j \in (Len(rule) - k + 1)..Len(rule) : rule[j] \in Digits

(***************************************************************************)
(* BigInt: the set of the positions of the 1 bits.                         *)
(***************************************************************************)
\* BigInt(n) for a number; BigInt(NaN) throws a RangeError, which the
\* callers test before they call this
BigInt(n) ==
    {i \in 0..15 : (n \div (2 ^ i)) % 2 = 1}

\* x << n ; a negative n shifts right
ShiftLeft(x, n) ==
    {i + n : i \in {j \in x : j + n >= 0}}

\* x - 1n, for x > 0n
MinusOne(x) ==
    LET low == CHOOSE i \in x : \A j \in x : i <= j
    IN  (x \ {low}) \cup 0..(low - 1)

\* x & y
BitAnd(x, y) ==
    x \cap y

\* ((1n << BigInt(prefix)) - 1n) << BigInt(width - prefix)
PrefixMask(prefix, width) ==
    ShiftLeft(MinusOne(ShiftLeft({0}, prefix)), width - prefix)

(***************************************************************************)
(* utils/ipaddr: address classification and conversion.                    *)
(***************************************************************************)
\* an IPv4 dotted quad: four decimal octets 0..255
IsIPv4Text(s) ==
    LET parts == Split(s, ".")
    IN  /\ Len(parts) = 4
        /\ \A i \in 1..4 :
              /\ Len(parts[i]) \in 1..3
              /\ \A j \in DOMAIN parts[i] : parts[i][j] \in Digits
              /\ DigitsVal(parts[i], 10) <= 255

\* the positions where a "::" zero run starts
DoubleColons(s) ==
    {i \in 1..(Len(s) - 1) : s[i] = ":" /\ s[i + 1] = ":"}

\* the groups of a colon-separated text without "::"
ColonGroups(s) ==
    IF Len(s) = 0 THEN << >> ELSE Split(s, ":")

\* the groups written before and after the "::" of an IPv6 text
HeadGroups(s) ==
    IF DoubleColons(s) = {} THEN ColonGroups(s)
    ELSE LET i == CHOOSE k \in DoubleColons(s) : TRUE
         IN  ColonGroups(SubSeq(s, 1, i - 1))

TailGroups(s) ==
    IF DoubleColons(s) = {} THEN << >>
    ELSE LET i == CHOOSE k \in DoubleColons(s) : TRUE
         IN  ColonGroups(SubSeq(s, i + 2, Len(s)))

\* an IPv6 colon-hex text: eight groups of one to four hexadecimal digits,
\* or fewer with one "::" standing for the missing zero groups
IsIPv6Text(s) ==
    /\ Includes(s, ":")
    /\ \A i \in DOMAIN s : s[i] \in HexDigits \cup {":"}
    /\ Cardinality(DoubleColons(s)) <= 1
    /\ LET groups == HeadGroups(s) \o TailGroups(s)
       IN  /\ \A i \in DOMAIN groups : Len(groups[i]) \in 1..4
           /\ IF DoubleColons(s) = {} THEN Len(groups) = 8
                                      ELSE Len(groups) <= 7

\* distinctRemoteAddr(text): "IPv4", "IPv6" or "unknown"; it never fails
distinctRemoteAddr(s) ==
    IF IsIPv4Text(s) THEN "IPv4"
    ELSE IF IsIPv6Text(s) THEN "IPv6"
    ELSE "unknown"

\* the name the ip-limit middleware imports the classifier under
distinctionRemoteAddr(s) ==
    distinctRemoteAddr(s)

\* String.prototype.padStart(4, '0') and lower case, for one group
RECURSIVE PadGroup(_)
PadGroup(g) ==
    IF Len(g) >= 4 THEN [i \in DOMAIN g |-> LowerChar(g[i])]
    ELSE PadGroup(<< "0" >> \o g)

\* n groups "0000"
ZeroGroups(n) ==
    [i \in 1..n |-> << "0", "0", "0", "0" >>]

\* expandIPv6(text): the canonical form, eight zero-padded lower-case groups
expandIPv6(s) ==
    LET head   == HeadGroups(s)
        tail   == TailGroups(s)
        groups == IF DoubleColons(s) = {} THEN head
                  ELSE head \o ZeroGroups(8 - Len(head) - Len(tail)) \o tail
    IN  Join([i \in DOMAIN groups |-> PadGroup(groups[i])], ":")

\* result <<= bits; result += BigInt(part), over the parts of an address
RECURSIVE PartsToBinary(_, _, _)
PartsToBinary(parts, bits, base) ==
    IF Len(parts) = 0 THEN {}
    ELSE ShiftLeft(PartsToBinary(SubSeq(parts, 1, Len(parts) - 1), bits, base), bits)
             \cup BigInt(DigitsVal(parts[Len(parts)], base))

\* convertIPv4ToBinary(text): the 32-bit form of a valid IPv4 literal
convertIPv4ToBinary(s) ==
    PartsToBinary(Split(s, "."), 8, 10)

\* convertIPv6ToBinary(text): the 128-bit form of a valid IPv6 literal
convertIPv6ToBinary(s) ==
    PartsToBinary(Split(expandIPv6(s), ":"), 16, 16)

\* the names the ip-limit middleware imports the conversions under
ipV4ToBinary(s) ==
    convertIPv4ToBinary(s)

ipV6ToBinary(s) ==
    convertIPv6ToBinary(s)

HexChar(n) ==
    CASE n = 10 -> "a" [] n = 11 -> "b" [] n = 12 -> "c"
      [] n = 13 -> "d" [] n = 14 -> "e" [] n = 15 -> "f"
      [] n = 0 -> "0" [] n = 1 -> "1" [] n = 2 -> "2" [] n = 3 -> "3"
      [] n = 4 -> "4" [] n = 5 -> "5" [] n = 6 -> "6" [] n = 7 -> "7"
      [] n = 8 -> "8" [] n = 9 -> "9"

\* the value of the four bits of x from position p upwards
Nibble(x, p) ==
    (IF p \in x THEN 1 ELSE 0) + (IF (p + 1) \in x THEN 2 ELSE 0)
        + (IF (p + 2) \in x THEN 4 ELSE 0) + (IF (p + 3) \in x THEN 8 ELSE 0)

\* convertIPv6ToString(binary): the canonical expanded text of a 128-bit
\* value
convertIPv6ToString(x) ==
    Join([g \in 1..8 |->
            [d \in 1..4 |-> HexChar(Nibble(x, (8 - g) * 16 + (4 - d) * 4))]], ":")

(***************************************************************************)
(* middleware/ip-limit: isMatchForRule.  The result is "true" or "false",  *)
(* or the name of the error the call throws.                               *)
(***************************************************************************)
\* lines 39-57: the wildcard branch, taken for an IPv4 remote only
WildcardMatch(remote, rule) ==
    LET ruleSections == Split(rule, ".")
        addrSections == Split(remote.addr, ".")
    IN  IF \A i \in 0..3 :
              \/ At(ruleSections, i) = STAR
              \/ At(addrSections, i) = At(ruleSections, i)
        THEN "true" ELSE "false"

\* lines 59-77: the CIDR branch
CidrMatch(remote, rule) ==
    LET isIPv4       == remote.type = "IPv4"
        splitedRule  == Split(rule, "/")
        baseRuleAddr == At(splitedRule, 0)
        prefix       == parseInt(At(splitedRule, 1))
        baseRuleMask == IF isIPv4 THEN ipV4ToBinary(baseRuleAddr)
                                  ELSE ipV6ToBinary(baseRuleAddr)
        remoteMask   == IF isIPv4 THEN ipV4ToBinary(remote.addr)
                                  ELSE ipV6ToBinary(remote.addr)
        mask         == PrefixMask(prefix, IF isIPv4 THEN 32 ELSE 128)
    IN  IF distinctionRemoteAddr(baseRuleAddr) # remote.type THEN "false"
        ELSE IF prefix = NaN THEN "RangeError"
        ELSE IF BitAnd(remoteMask, mask) = BitAnd(baseRuleMask, mask)
        THEN "true" ELSE "false"

\* lines 79-90: the static branch, and the throw for an unknown rule
StaticMatch(remote, rule) ==
    LET ruleAddrConnType == distinctionRemoteAddr(rule)
    IN  IF ruleAddrConnType \in {"IPv4", "IPv6"}
        THEN IF ruleAddrConnType # remote.type THEN "false"
             ELSE IF remote.type = "IPv6"
             THEN IF expandIPv6(remote.addr) = expandIPv6(rule)
                  THEN "true" ELSE "false"
             ELSE IF rule = remote.addr THEN "true" ELSE "false"
        ELSE "TypeError"

isMatchForRule(remote, rule) ==
    IF rule = STAR THEN "true"
    ELSE IF remote.type = "IPv4" /\ Includes(rule, "*")
    THEN WildcardMatch(remote, rule)
    ELSE IF IS_CIDR_NOTATION_REGEX(rule) /\ remote.type \in {"IPv4", "IPv6"}
    THEN CidrMatch(remote, rule)
    ELSE StaticMatch(remote, rule)

(***************************************************************************)
(* ipRestriction's rules: a text, or a function.  A function rule is the   *)
(* pair <<"function", name>>, which no text equals.                        *)
(***************************************************************************)
\* typeof rule === 'function'
IsFunction(rule) ==
    Len(rule) = 2 /\ rule[1] = "function"

\* a synchronous predicate: true for the address 192.168.2.5 only
isLabHost ==
    << "function", "isLabHost" >>

\* an async predicate: it returns a promise, which resolves to false
asyncNever ==
    << "function", "asyncNever" >>

\* the value a call rule({ addr, type }) returns: a boolean, or the promise
\* of an async function
CallRule(rule, remote) ==
    IF rule = isLabHost
    THEN IF remote.addr = A_192_168_2_5 THEN "true" ELSE "false"
    ELSE "Promise"

\* the value an awaited call would give
AwaitedRule(rule, remote) ==
    IF rule = isLabHost THEN CallRule(rule, remote) ELSE "false"

\* JavaScript truthiness of a predicate's return value: an object, and so
\* a promise, is truthy
Truthy(v) ==
    v # "false"

(***************************************************************************)
(* helper/ssg (ip-restriction part): buildMatcher.                         *)
(***************************************************************************)
\* binaryAddr is undefined until the first conversion; no BigInt has a
\* negative bit position
UndefinedBinary ==
    {0 - 1}

\* the operand test of ||= : undefined and 0n are falsy
Falsy(x) ==
    x = UndefinedBinary \/ x = {}

\* the three collections buildMatcher starts with (lines 187-189)
EmptyMatcher ==
    [error |-> "none", matchAll |-> FALSE, functionRules |-> << >>,
     staticRules |-> {}, cidrRules |-> << >>]

\* line 193: return () => true
MatchAllMatcher ==
    [EmptyMatcher EXCEPT !.matchAll = TRUE]

\* a throw out of buildMatcher
FailedMatcher(err) ==
    [EmptyMatcher EXCEPT !.error = err]

\* lines 221-225: a static rule
AddStatic(m, rule) ==
    LET type == distinctRemoteAddr(rule)
    IN  IF type = "unknown" THEN FailedMatcher("TypeError")
        ELSE [m EXCEPT !.staticRules =
                 @ \cup {IF type = "IPv4" THEN rule
                         ELSE convertIPv6ToString(convertIPv6ToBinary(rule))}]

\* lines 197-219: a rule the CIDR regular expression accepts
AddCidr(m, rule) ==
    LET splittedRule == Split(rule, "/")
        addrStr      == At(splittedRule, 0)
        type         == distinctRemoteAddr(addrStr)
        isIPv4       == type = "IPv4"
        prefix       == parseInt(At(splittedRule, 1))
        addr         == IF isIPv4 THEN convertIPv4ToBinary(addrStr)
                                  ELSE convertIPv6ToBinary(addrStr)
        mask         == PrefixMask(prefix, IF isIPv4 THEN 32 ELSE 128)
    IN  IF type = "unknown" THEN FailedMatcher("TypeError")
        ELSE IF (IF isIPv4 THEN prefix = 32 ELSE prefix = 128)
        THEN AddStatic(m, addrStr)
        ELSE IF prefix = NaN THEN FailedMatcher("RangeError")
        ELSE [m EXCEPT !.cidrRules =
                 Append(@, [isIPv4 |-> isIPv4, addr |-> BitAnd(addr, mask),
                            mask |-> mask])]

\* lines 191-227: the loop over the rules
RECURSIVE BuildLoop(_, _)
BuildLoop(rules, m) ==
    IF Len(rules) = 0 THEN m
    ELSE LET rule == Head(rules)
             next == IF IsFunction(rule)
                     THEN [m EXCEPT !.functionRules = Append(@, rule)]
                     ELSE IF IS_CIDR_NOTATION_REGEX(rule) THEN AddCidr(m, rule)
                     ELSE AddStatic(m, rule)
         IN  IF rule = STAR THEN MatchAllMatcher
             ELSE IF next.error # "none" THEN next
             ELSE BuildLoop(Tail(rules), next)

buildMatcher(rules) ==
    BuildLoop(rules, EmptyMatcher)

\* lines 239-247: one iteration of the loop over cidrRules; run is the
\* record of the evaluation so far
CidrStep(entry, run) ==
    LET convert    == Falsy(run.remote.binaryAddr)
        remoteAddr == IF ~convert THEN run.remote.binaryAddr
                      ELSE IF entry.isIPv4
                      THEN convertIPv4ToBinary(run.remote.addr)
                      ELSE convertIPv6ToBinary(run.remote.addr)
    IN  IF entry.isIPv4 # run.remote.isIPv4 THEN run
        ELSE Bind(remoteAddr, LAMBDA bin :
                 [run EXCEPT !.remote.binaryAddr = bin,
                             !.conversions = @ + (IF convert THEN 1 ELSE 0),
                             !.result = IF BitAnd(bin, entry.mask) = entry.addr
                                        THEN "true" ELSE "false"])

\* lines 238-248: the loop over cidrRules from entry i on
RECURSIVE CidrLoop(_, _, _)
CidrLoop(m, i, run) ==
    IF i > Len(m.cidrRules) THEN run
    ELSE Bind(CidrStep(m.cidrRules[i], run), LAMBDA after :
             IF after.result = "true" THEN after
             ELSE CidrLoop(m, i + 1, after))

\* lines 249-253: the loop over functionRules from entry i on
RECURSIVE FunctionLoop(_, _, _)
FunctionLoop(m, i, run) ==
    IF i > Len(m.functionRules) THEN run
    ELSE Bind([run EXCEPT !.calls = Append(@, m.functionRules[i])],
              LAMBDA after :
                 IF Truthy(CallRule(m.functionRules[i], after.remote))
                 THEN [after EXCEPT !.result = "true"]
                 ELSE FunctionLoop(m, i + 1, after))

\* lines 229-255: the matcher buildMatcher returns, applied to remote.  The
\* result carries the remote object as the call leaves it, the number of
\* text-to-binary conversions of the call and the predicates it invoked.
Matcher(m, remote) ==
    Bind([result |-> "false", remote |-> remote, conversions |-> 0,
          calls |-> << >>],
         LAMBDA start :
            IF m.matchAll THEN [start EXCEPT !.result = "true"]
            ELSE IF remote.addr \in m.staticRules
            THEN [start EXCEPT !.result = "true"]
            ELSE Bind(CidrLoop(m, 1, start), LAMBDA afterCidr :
                     IF afterCidr.result = "true" THEN afterCidr
                     ELSE FunctionLoop(m, 1, afterCidr)))

(***************************************************************************)
(* The two middlewares.                                                    *)
(***************************************************************************)
VARIABLES
    installed,      \* "none", "ipLimit", "ipRestriction", or "error" when
                    \* the construction threw
    setupError,     \* the error the construction threw, or "none"
    deny,           \* the deny / denyList option
    allow,          \* the allow / allowList option
    validHandler,   \* ipLimit: "none", or "test" for the handler of the test
    onError,        \* ipRestriction: whether the onError argument is given
    denyMatcher,    \* ipRestriction: buildMatcher(denyList)
    allowMatcher,   \* ipRestriction: buildMatcher(allowList)
    pc,             \* the request in hand: "idle", "validHandler", "done"
    remote,         \* the address object of the request in hand
    handlerResult,  \* validHandlerResult: "none", "allow", "deny", "void"
    outcome,        \* "none", "next", "reject", "onError", or a thrown error
    evaluated,      \* ipLimit: the isMatchForRule calls of this request
    denyRun,        \* ipRestriction: the call denyMatcher(remoteData)
    allowRun,       \* ipRestriction: the call allowMatcher(remoteData)
    probeRule,      \* one rule, for the calls of the matching functions
    probeRemote,    \* one address object, for the same
    probeResult,    \* isMatchForRule(probeRemote, probeRule), or "none"
    probeMatcher,   \* buildMatcher([probeRule]), once built
    probeRun        \* the built matcher applied to probeRemote

middlewareVars ==
    << installed, setupError, deny, allow, validHandler, onError, denyMatcher,
       allowMatcher, pc, remote, handlerResult, outcome, evaluated, denyRun,
       allowRun >>

probeVars ==
    << probeRule, probeRemote, probeResult, probeMatcher, probeRun >>

vars ==
    << installed, setupError, deny, allow, validHandler, onError, denyMatcher,
       allowMatcher, pc, remote, handlerResult, outcome, evaluated, denyRun,
       allowRun, probeRule, probeRemote, probeResult, probeMatcher, probeRun >>

\* the most rules the deny and the allow list of one middleware hold together
MaxRules ==
    3

\* the rules of both middlewares, and the function rules of ipRestriction
LimitRuleSources ==
    {STAR, A_192_168_2_10, R_192_168_2_0_p24, R_bogus}

RestrictRuleSources ==
    LimitRuleSources \cup {isLabHost, asyncNever}

RuleLists(sources) ==
    UNION {[1..n -> sources] : n \in 0..MaxRules}

\* the addresses getConnInfo reports; the empty text is a missing address
RequestAddrs ==
    {<< >>, A_0_0_0_0, A_192_168_2_5, A_192_168_2_10, A_192_168_3_15,
     A_192_168_3_20, A6_1}

Errors ==
    {"TypeError", "RangeError"}

\* a matcher call that did not take place
NoRun ==
    [result |-> "none",
     remote |-> [addr |-> << >>, type |-> "unknown", isIPv4 |-> FALSE,
                 binaryAddr |-> UndefinedBinary],
     conversions |-> 0, calls |-> << >>]

NoRemote ==
    NoRun.remote

\* a middleware that was not built: no matcher
NotBuilt ==
    FailedMatcher("not built")

\* ip-limit line 150 and ssg line 294-297: the address object of a request
RemoteData(addr) ==
    [addr |-> addr, type |-> distinctRemoteAddr(addr),
     isIPv4 |-> distinctRemoteAddr(addr) = "IPv4",
     binaryAddr |-> UndefinedBinary]

\* ip-limit lines 236-242: the validHandler of the test
TestValidHandler(r) ==
    IF r.addr = A_192_168_3_15 THEN "allow"
    ELSE IF r.addr = A_192_168_3_20 THEN "deny"
    ELSE "void"

\* ip-limit lines 167-172 and 173-178: one loop over a rule list from rule i
\* on; it ends at the first rule that matches or throws
RECURSIVE ScanRules(_, _, _)
ScanRules(r, rules, i) ==
    IF i > Len(rules) THEN [result |-> "false", evaluated |-> i - 1]
    ELSE Bind(isMatchForRule([type |-> r.type, addr |-> r.addr], rules[i]),
              LAMBDA isValid :
                 IF isValid = "false" THEN ScanRules(r, rules, i + 1)
                 ELSE [result |-> isValid, evaluated |-> i])

\* ip-limit lines 167-185: the deny loop, the allow loop and the default
LimitRules(r, denyRules, allowRules) ==
    Bind(ScanRules(r, denyRules, 1), LAMBDA d :
        IF d.result = "true"
        THEN [outcome |-> "reject", evaluated |-> d.evaluated]
        ELSE IF d.result \in Errors
        THEN [outcome |-> d.result, evaluated |-> d.evaluated]
        ELSE Bind(ScanRules(r, allowRules, 1), LAMBDA a :
                 [outcome   |-> IF a.result = "true" THEN "next"
                                ELSE IF a.result \in Errors THEN a.result
                                ELSE IF Len(allowRules) > 0 THEN "reject"
                                ELSE "next",
                  evaluated |-> d.evaluated + a.evaluated]))

\* a decision procedure in which a 'deny' of the validHandler is not final
LimitDecideDenyFallsThrough(validHandlerResult, r, denyRules, allowRules) ==
    IF validHandlerResult = "allow"
    THEN [outcome |-> "next", evaluated |-> 0]
    ELSE LimitRules(r, denyRules, allowRules)

\* ip-limit lines 160-185: the decision once validHandler has returned
LimitDecide(validHandlerResult, r, denyRules, allowRules) ==
    IF validHandlerResult = "allow"
    THEN [outcome |-> "next", evaluated |-> 0]
    ELSE IF validHandlerResult = "deny"
    THEN [outcome |-> "reject", evaluated |-> 0]
    ELSE LimitRules(r, denyRules, allowRules)

\* ssg lines 299-317: the decision of ipRestriction; the two matchers are
\* given the same remoteData object
RestrictDecide(r, dm, am, allowLength, hasOnError) ==
    Bind(Matcher(dm, r), LAMBDA d :
        IF d.result = "true"
        THEN [outcome  |-> IF hasOnError THEN "onError" ELSE "reject",
              denyRun  |-> d, allowRun |-> NoRun]
        ELSE Bind(Matcher(am, d.remote), LAMBDA a :
                 [outcome  |-> IF a.result = "true" THEN "next"
                               ELSE IF allowLength = 0 THEN "next"
                               ELSE IF hasOnError THEN "onError"
                               ELSE "reject",
                  denyRun  |-> d, allowRun |-> a]))

MiddlewareInit ==
    /\ installed = "none"
    /\ setupError = "none"
    /\ deny = << >>
    /\ allow = << >>
    /\ validHandler = "none"
    /\ onError = FALSE
    /\ denyMatcher = NotBuilt
    /\ allowMatcher = NotBuilt
    /\ pc = "idle"
    /\ remote = NoRemote
    /\ handlerResult = "none"
    /\ outcome = "none"
    /\ evaluated = 0
    /\ denyRun = NoRun
    /\ allowRun = NoRun

ProbeIdle ==
    /\ probeRule = STAR
    /\ probeRemote = NoRemote
    /\ probeResult = "none"
    /\ probeMatcher = NotBuilt
    /\ probeRun = NoRun

Init ==
    MiddlewareInit /\ ProbeIdle

\* ip-limit lines 127-143: ipLimit(getConnInfo, { deny, allow, validHandler })
ConstructIpLimit ==
    /\ installed = "none"
    /\ \E d \in RuleLists(LimitRuleSources), a \in RuleLists(LimitRuleSources),
          h \in {"none", "test"} :
          /\ Len(d) + Len(a) <= MaxRules
          /\ deny' = d
          /\ allow' = a
          /\ validHandler' = h
    /\ installed' = "ipLimit"
    /\ UNCHANGED << setupError, onError, denyMatcher, allowMatcher, pc, remote,
                    handlerResult, outcome, evaluated, denyRun, allowRun >>
    /\ UNCHANGED probeVars

\* ssg lines 271-287: ipRestriction(getIP, { denyList, allowList }, onError)
ConstructIpRestriction ==
    /\ installed = "none"
    /\ \E d \in RuleLists(RestrictRuleSources),
          a \in RuleLists(RestrictRuleSources), e \in BOOLEAN :
          /\ Len(d) + Len(a) <= MaxRules
          /\ \E dm \in {buildMatcher(d)}, am \in {buildMatcher(a)} :
              /\ deny' = d
              /\ allow' = a
              /\ onError' = e
              /\ IF dm.error # "none"
                 THEN /\ installed' = "error"
                      /\ setupError' = dm.error
                      /\ UNCHANGED << denyMatcher, allowMatcher >>
                 ELSE IF am.error # "none"
                 THEN /\ installed' = "error"
                      /\ setupError' = am.error
                      /\ denyMatcher' = dm
                      /\ UNCHANGED allowMatcher
                 ELSE /\ installed' = "ipRestriction"
                      /\ denyMatcher' = dm
                      /\ allowMatcher' = am
                      /\ UNCHANGED setupError
    /\ UNCHANGED << validHandler, pc, remote, handlerResult, outcome,
                    evaluated, denyRun, allowRun >>
    /\ UNCHANGED probeVars

\* ip-limit lines 144-152, and 167-185 when no validHandler is configured
IpLimitRequest ==
    /\ installed = "ipLimit"
    /\ pc = "idle"
    /\ \E addr \in RequestAddrs :
          IF addr = << >>
          THEN /\ remote' = NoRemote
               /\ outcome' = "reject"
               /\ pc' = "done"
               /\ UNCHANGED evaluated
          ELSE /\ remote' = RemoteData(addr)
               /\ IF validHandler # "none"
                  THEN /\ pc' = "validHandler"
                       /\ UNCHANGED << outcome, evaluated >>
                  ELSE \E res \in {LimitRules(RemoteData(addr), deny, allow)} :
                           /\ outcome' = res.outcome
                           /\ evaluated' = res.evaluated
                           /\ pc' = "done"
    /\ UNCHANGED << installed, setupError, deny, allow, validHandler, onError,
                    denyMatcher, allowMatcher, handlerResult, denyRun,
                    allowRun >>
    /\ UNCHANGED probeVars

\* ip-limit lines 153-185: validHandler has returned
IpLimitValidHandlerReturns ==
    /\ pc = "validHandler"
    /\ \E validHandlerResult \in {TestValidHandler(remote)} :
          \E res \in {LimitDecide(validHandlerResult, remote, deny, allow)} :
              /\ handlerResult' = validHandlerResult
              /\ outcome' = res.outcome
              /\ evaluated' = res.evaluated
    /\ pc' = "done"
    /\ UNCHANGED << installed, setupError, deny, allow, validHandler, onError,
                    denyMatcher, allowMatcher, remote, denyRun, allowRun >>
    /\ UNCHANGED probeVars

\* ssg lines 288-317: one request through ipRestriction
IpRestrictionRequest ==
    /\ installed = "ipRestriction"
    /\ pc = "idle"
    /\ \E addr \in RequestAddrs :
          IF addr = << >>
          THEN /\ remote' = NoRemote
               /\ outcome' = "reject"
               /\ UNCHANGED << denyRun, allowRun >>
          ELSE \E res \in {RestrictDecide(RemoteData(addr), denyMatcher,
                                           allowMatcher, Len(allow), onError)} :
                   /\ remote' = IF res.allowRun = NoRun
                                THEN res.denyRun.remote
                                ELSE res.allowRun.remote
                   /\ outcome' = res.outcome
                   /\ denyRun' = res.denyRun
                   /\ allowRun' = res.allowRun
    /\ pc' = "done"
    /\ UNCHANGED << installed, setupError, deny, allow, validHandler, onError,
                    denyMatcher, allowMatcher, handlerResult, evaluated >>
    /\ UNCHANGED probeVars

\* the request is over; its address object is dropped
Complete ==
    /\ pc = "done"
    /\ pc' = "idle"
    /\ remote' = NoRemote
    /\ handlerResult' = "none"
    /\ outcome' = "none"
    /\ evaluated' = 0
    /\ denyRun' = NoRun
    /\ allowRun' = NoRun
    /\ UNCHANGED << installed, setupError, deny, allow, validHandler, onError,
                    denyMatcher, allowMatcher >>
    /\ UNCHANGED probeVars

Next ==
    \/ ConstructIpLimit
    \/ ConstructIpRestriction
    \/ IpLimitRequest
    \/ IpLimitValidHandlerReturns
    \/ IpRestrictionRequest
    \/ Complete

Spec ==
    Init /\ [][Next]_vars

(***************************************************************************)
(* The matching functions on one rule and one address: the rule and the    *)
(* address are drawn at the start, then isMatchForRule is called, and      *)
(* buildMatcher([rule]) is built and applied.                              *)
(***************************************************************************)
ProbeRules ==
    {STAR, A_192_168_2_10, R_192_168_2_wild, R_192_168_2_0_p24, R_0_0_0_0_p0,
     R_192_168_2_10_p32, R_192_168_2_10_p33, R_192_168_2_0_pnone,
     A6_1, A6_1_full, A6_1234_5678, A6_1234_5678_upper,
     R6_0_p1, R6_1_p128, R6_1_p129, R6_any_p0, R6_1234_p16, R_bogus}

ProbeAddrs ==
    {A_0_0_0_0, A_192_168_1_0, A_192_168_2_0, A_192_168_2_5, A_192_168_2_10,
     A_192_168_2_255, A_192_168_3_1,
     A6_1, A6_1_full, A6_0, A6_any, A6_8000, A6_1234_5678, A6_12ab_5678,
     A6_1234_5678_upper}

ProbeInit ==
    /\ MiddlewareInit
    /\ probeRule \in ProbeRules
    /\ probeRemote \in {RemoteData(a) : a \in ProbeAddrs}
    /\ probeResult = "none"
    /\ probeMatcher = NotBuilt
    /\ probeRun = NoRun

\* isMatchForRule({ addr, type }, rule)
CallIsMatchForRule ==
    /\ probeResult = "none"
    /\ probeResult' = isMatchForRule([addr |-> probeRemote.addr,
                                      type |-> probeRemote.type], probeRule)
    /\ UNCHANGED << probeRule, probeRemote, probeMatcher, probeRun >>
    /\ UNCHANGED middlewareVars

\* buildMatcher([rule])
CallBuildMatcher ==
    /\ probeMatcher = NotBuilt
    /\ probeMatcher' = buildMatcher(<< probeRule >>)
    /\ UNCHANGED << probeRule, probeRemote, probeResult, probeRun >>
    /\ UNCHANGED middlewareVars

\* the built matcher, applied to the address object
CallMatcher ==
    /\ probeMatcher.error = "none"
    /\ probeRun = NoRun
    /\ probeRun' = Matcher(probeMatcher, probeRemote)
    /\ UNCHANGED << probeRule, probeRemote, probeResult, probeMatcher >>
    /\ UNCHANGED middlewareVars

ProbeNext ==
    \/ CallIsMatchForRule
    \/ CallBuildMatcher
    \/ CallMatcher

SpecRule ==
    ProbeInit /\ [][ProbeNext]_vars

(***************************************************************************)
(* What the properties speak of.                                           *)
(***************************************************************************)
Denied ==
    {"reject", "onError"}

\* a request of an installed middleware has been decided
Decided ==
    pc = "done" /\ installed \in {"ipLimit", "ipRestriction"}

\* the request in hand has a resolved address
Resolved ==
    remote.addr # << >>

\* the override callback gave an explicit decision for the request in hand
Overridden ==
    handlerResult \in {"allow", "deny"}

\* the rule, taken alone, matches the address under the installed middleware
RuleMatches(rule, addr) ==
    IF installed = "ipLimit"
    THEN isMatchForRule([addr |-> addr, type |-> distinctRemoteAddr(addr)],
                        rule) = "true"
    ELSE /\ buildMatcher(<< rule >>).error = "none"
         /\ Matcher(buildMatcher(<< rule >>), RemoteData(addr)).result = "true"

SomeRuleMatches(rules, addr) ==
    \E i \in DOMAIN rules : RuleMatches(rules[i], addr)

AddressWidth(type) ==
    IF type = "IPv4" THEN 32 ELSE 128

ToBinary(text, type) ==
    IF type = "IPv4" THEN convertIPv4ToBinary(text)
    ELSE convertIPv6ToBinary(text)

\* the top len bits of a width-bit value
TopBits(x, len, width) ==
    {i \in x : i >= width - len}

\* the two parts of a rule "address/prefix"
CidrBase(rule) ==
    At(Split(rule, "/"), 0)

CidrPrefixText(rule) ==
    At(Split(rule, "/"), 1)

\* a rule "address/prefix" with a classified address
IsCidrRule(rule) ==
    /\ IS_CIDR_NOTATION_REGEX(rule)
    /\ Len(Split(rule, "/")) = 2
    /\ distinctRemoteAddr(CidrBase(rule)) \in {"IPv4", "IPv6"}

\* ... whose prefix length is within the width of the address family
IsValidCidrRule(rule) ==
    /\ IsCidrRule(rule)
    /\ Len(CidrPrefixText(rule)) > 0
    /\ DigitsVal(CidrPrefixText(rule), 10)
           <= AddressWidth(distinctRemoteAddr(CidrBase(rule)))

\* ... whose prefix length is missing or beyond the width
IsBadPrefixRule(rule) ==
    IsCidrRule(rule) /\ ~IsValidCidrRule(rule)

\* an IPv4 wildcard rule: four sections, each "*" or an octet, one "*" at least
IsWildcardRule(rule) ==
    LET sections == Split(rule, ".")
    IN  /\ Len(sections) = 4
        /\ \E i \in 1..4 : sections[i] = STAR
        /\ \A i \in 1..4 :
              \/ sections[i] = STAR
              \/ /\ Len(sections[i]) \in 1..3
                 /\ \A j \in DOMAIN sections[i] : sections[i][j] \in Digits
                 /\ DigitsVal(sections[i], 10) <= 255

\* the address is IPv4 and agrees with the wildcard rule at every fixed octet
WildcardCovers(rule, r) ==
    /\ r.type = "IPv4"
    /\ \A i \in 1..4 :
          \/ Split(rule, ".")[i] = STAR
          \/ DigitsVal(Split(rule, ".")[i], 10)
                 = DigitsVal(Split(r.addr, ".")[i], 10)

AsResult(b) ==
    IF b THEN "true" ELSE "false"

\* both matching functions, where they have been called, gave this result
ProbesGive(expected) ==
    /\ probeResult # "none" => probeResult = expected
    /\ probeMatcher # NotBuilt => probeMatcher.error = "none"
    /\ probeRun # NoRun => probeRun.result = expected

(***************************************************************************)
(* C1.  A request whose resolved address is matched by a rule of the deny  *)
(* list and by a rule of the allow list, without an explicit decision of   *)
(* the override callback, is denied: the rejection outcome is produced and *)
(* the next stage is not invoked, in both middlewares and for any order of *)
(* the rules.                                                              *)
(***************************************************************************)
DenyPrecedesAllow ==
    (/\ Decided
     /\ Resolved
     /\ ~Overridden
     /\ SomeRuleMatches(deny, remote.addr)
     /\ SomeRuleMatches(allow, remote.addr))
        => outcome \in Denied

(***************************************************************************)
(* C2.  A request with a resolved address that no deny rule matches, and   *)
(* without an override decision: with a non-empty allow list it is allowed *)
(* exactly when some allow rule matches and denied otherwise; with an      *)
(* empty allow list it is always allowed.                                  *)
(***************************************************************************)
AllowListDecides ==
    (/\ Decided
     /\ Resolved
     /\ ~Overridden
     /\ ~SomeRuleMatches(deny, remote.addr))
        => IF Len(allow) > 0
           THEN outcome = (IF SomeRuleMatches(allow, remote.addr)
                           THEN "next"
                           ELSE IF onError THEN "onError" ELSE "reject")
           ELSE outcome = "next"

(***************************************************************************)
(* C3.  An explicit 'allow' or 'deny' of the override callback is the      *)
(* final decision whatever the lists hold, and no rule is evaluated for    *)
(* that request, so no rule, not even a malformed one, raises an error on  *)
(* it; when the callback gives no opinion, the decision is the one of the  *)
(* deny/allow procedure alone.                                             *)
(***************************************************************************)
OverrideIsAuthoritative ==
    (Decided /\ Resolved /\ validHandler # "none")
        => /\ handlerResult = TestValidHandler(remote)
           /\ handlerResult = "allow" => outcome = "next" /\ evaluated = 0
           /\ handlerResult = "deny" => outcome = "reject" /\ evaluated = 0
           /\ handlerResult = "void"
                  => /\ outcome = LimitRules(remote, deny, allow).outcome
                     /\ evaluated = LimitRules(remote, deny, allow).evaluated

\* the callback overrides lists that would deny, or throw on a malformed
\* rule, and lists that would allow
OverrideWitness ==
    /\ Decided
    /\ \/ /\ handlerResult = "allow"
          /\ outcome = "next"
          /\ LimitRules(remote, deny, allow).outcome \in Errors
       \/ /\ handlerResult = "deny"
          /\ outcome = "reject"
          /\ LimitRules(remote, deny, allow).outcome = "next"

(***************************************************************************)
(* C4.  A malformed textual rule is a configuration error of the           *)
(* construction, never of a request: once a middleware is installed, no    *)
(* request, for an address of either family, ends in an error raised by a  *)
(* rule.                                                                   *)
(***************************************************************************)
NoRuleErrorAtRequestTime ==
    Decided => outcome \notin Errors

(***************************************************************************)
(* C5.  A valid CIDR rule ip/len matches an address of its family exactly  *)
(* when the top len bits of the two binary forms agree, and never an       *)
(* address of the other family; for isMatchForRule and for the matcher of  *)
(* buildMatcher, len = 0 and len = full width included.                    *)
(***************************************************************************)
CidrMatchesTopBits ==
    IsValidCidrRule(probeRule)
        => LET type == distinctRemoteAddr(CidrBase(probeRule))
               len  == DigitsVal(CidrPrefixText(probeRule), 10)
           IN  ProbesGive(AsResult(
                   /\ probeRemote.type = type
                   /\ TopBits(ToBinary(probeRemote.addr, type), len,
                              AddressWidth(type))
                          = TopBits(ToBinary(CidrBase(probeRule), type), len,
                                    AddressWidth(type))))

(***************************************************************************)
(* C6.  A static IPv6 rule, or an IPv6 CIDR rule of prefix 128, matches    *)
(* every textual form of the address it denotes; for isMatchForRule and    *)
(* for the matcher of buildMatcher.                                        *)
(***************************************************************************)
Ipv6StaticIsCanonical ==
    LET text == IF IsCidrRule(probeRule) THEN CidrBase(probeRule)
                ELSE probeRule
    IN  (/\ distinctRemoteAddr(text) = "IPv6"
         /\ IsCidrRule(probeRule)
                => CidrPrefixText(probeRule) = << "1", "2", "8" >>
         /\ probeRemote.type = "IPv6"
         /\ convertIPv6ToBinary(text) = convertIPv6ToBinary(probeRemote.addr))
            => ProbesGive("true")

(***************************************************************************)
(* C7.  A CIDR rule whose prefix length is missing, or beyond 32 for an    *)
(* IPv4 or 128 for an IPv6 address, is rejected when the rule list is      *)
(* compiled: it is never stored in a matcher nor evaluated against an      *)
(* address.                                                                *)
(***************************************************************************)
BadPrefixIsRejected ==
    IsBadPrefixRule(probeRule)
        => /\ probeMatcher # NotBuilt => probeMatcher.error \in Errors
           /\ probeResult \notin {"true", "false"}

(***************************************************************************)
(* C9.  An IPv4 wildcard rule matches an address exactly when the address  *)
(* is IPv4 and has the rule's octet at every position that is not a        *)
(* wildcard; for any other address of either family the result is false,   *)
(* not an error.                                                           *)
(***************************************************************************)
WildcardMatchesOctets ==
    IsWildcardRule(probeRule)
        => ProbesGive(AsResult(WildcardCovers(probeRule, probeRemote)))

\* the function rules of a list, in declaration order
FunctionRulesOf(rules) ==
    SelectSeq(rules, IsFunction)

\* some textual rule of the list (match-all, static or CIDR) matches
TextualRuleMatches(rules, addr) ==
    \E i \in DOMAIN rules :
        ~IsFunction(rules[i]) /\ RuleMatches(rules[i], addr)

\* one matcher call kept the order of evaluation: no predicate after a
\* textual match, the predicates one by one in declaration order up to the
\* first whose awaited value is true, and a match exactly in these cases
InOrderAndAwaited(rules, run) ==
    LET fns == FunctionRulesOf(rules)
        n   == Len(run.calls)
    IN  /\ TextualRuleMatches(rules, run.remote.addr) => n = 0
        /\ n <= Len(fns)
        /\ run.calls = SubSeq(fns, 1, n)
        /\ \A k \in 1..(n - 1) :
              AwaitedRule(run.calls[k], run.remote) = "false"
        /\ run.result = "true"
              <=> \/ TextualRuleMatches(rules, run.remote.addr)
                  \/ n > 0 /\ AwaitedRule(run.calls[n], run.remote) = "true"
        /\ run.result = "false" => n = Len(fns)

(***************************************************************************)
(* C8.  In one matcher evaluation the function rules are invoked only once *)
(* every textual rule of the list has failed to match, wherever they stand *)
(* in the list, one at a time in declaration order; the result of an       *)
(* asynchronous predicate is awaited before it is judged, and the first    *)
(* truthy result ends the evaluation with a match.                         *)
(***************************************************************************)
PredicatesLastInOrderAwaited ==
    (Decided /\ installed = "ipRestriction")
        => /\ denyRun # NoRun => InOrderAndAwaited(deny, denyRun)
           /\ allowRun # NoRun => InOrderAndAwaited(allow, allowRun)

(***************************************************************************)
(* C10.  While one request address is evaluated against a compiled         *)
(* matcher, its text is converted to binary at most once, the all-zero     *)
(* addresses included; the cached binary form belongs to the address       *)
(* object of that request and a later request does not see it.             *)
(***************************************************************************)
ConvertedAtMostOnce ==
    /\ denyRun.conversions <= 1
    /\ allowRun.conversions <= 1
    /\ pc = "idle" => remote.binaryAddr = UndefinedBinary
====
